---- MODULE Spec2Model ----
(***************************************************************************)
(* Tasks API: one table "tasks" behind five request handlers               *)
(* (app/routers/task_views.py), validated by the Pydantic schemas          *)
(* (app/schemas/task_schemas.py), stored through the SQLAlchemy model      *)
(* (app/models/task.py) in SQLite (app/database.py).                       *)
(*                                                                         *)
(* Spec      handles one request at a time, each handler as one action.    *)
(* ConcSpec  runs request workers step by step (lookup, commit, close),    *)
(*           each with its own session, against the same table.            *)
(***************************************************************************)
EXTENDS Integers, Sequences, FiniteSets, TLC

\* ------------------------------------------------------------- bounds
\* Requests handled in one behaviour of Spec (also the clock's range).
MaxRequests == 4
\* Largest task id a request names.
MaxTaskId == 2
\* Requests in flight at once in ConcSpec.
MaxInFlight == 2

\* ------------------------------------------------- schema constants
TitleMinLen == 1
TitleMaxLen == 100
DescriptionMaxLen == 500
PriorityMin == 1
PriorityMax == 5
PriorityDefault == 3

\* ------------------------------------------------------------- values
\* Optional[T]: None is the empty tuple, a present value v is <<v>>.
None == <<>>
Some(v) == <<v>>

\* A string of n characters.
Rep(n) == [i \in 1..n |-> "a"]

Fields ==
  {"title", "description", "completed", "priority", "due_date",
   "owner_email", "category"}

Categories == {"work", "personal", "study", "other"}

\* Addresses EmailStr accepts (the others are rejected).
ValidEmails == {"bob@example.com", "bob@EXAMPLE.com"}

\* EmailStr returns the normalised address: the domain in lower case.
NormalizeEmail(e) == IF e = "bob@EXAMPLE.com" THEN "bob@example.com" ELSE e

\* A timezone-aware datetime as the request carries it.
DueAware == [t |-> 9, tz |-> "utc"]

\* -------------------------------------------------------- validation
\* Field(...) constraints on a value that is present and not null.
ConstraintOKLoose(f, x) ==
  CASE f = "title" -> Len(x) >= TitleMinLen /\ Len(x) <= TitleMaxLen
    [] f = "description" -> Len(x) <= DescriptionMaxLen
    [] f = "completed" -> x \in BOOLEAN
    [] f = "priority" -> x >= PriorityMin
    [] f = "due_date" -> TRUE
    [] f = "owner_email" -> x \in ValidEmails
    [] f = "category" -> x \in Categories

ConstraintOK(f, x) ==
  CASE f = "title" -> Len(x) >= TitleMinLen /\ Len(x) <= TitleMaxLen
    [] f = "description" -> Len(x) <= DescriptionMaxLen
    [] f = "completed" -> x \in BOOLEAN
    [] f = "priority" -> x >= PriorityMin /\ x <= PriorityMax
    [] f = "due_date" -> TRUE
    [] f = "owner_email" -> x \in ValidEmails
    [] f = "category" -> x \in Categories

\* TaskBase: the fields typed Optional[...] accept null.
CreateNullable == {"description", "due_date", "owner_email", "category"}

\* TaskBase defaults of the fields a body leaves out (title is required).
DefaultLow(f) ==
  CASE f = "completed" -> Some(FALSE)
    [] f = "priority" -> Some(PriorityMin)
    [] f = "category" -> Some("other")
    [] OTHER -> None

Default(f) ==
  CASE f = "completed" -> Some(FALSE)
    [] f = "priority" -> Some(PriorityDefault)
    [] f = "category" -> Some("other")
    [] OTHER -> None

\* What validation makes of an accepted value.
Coerce(f, v) ==
  IF f = "owner_email" /\ v # None THEN Some(NormalizeEmail(v[1])) ELSE v

\* The keys of a body that the schema declares: the others are ignored.
Declared(body) == DOMAIN body \cap Fields

\* TaskCreate(**body) succeeds.
TaskCreateValid(body) ==
  /\ "title" \in DOMAIN body
  /\ \A f \in Declared(body) :
       IF body[f] = None THEN f \in CreateNullable
       ELSE ConstraintOK(f, body[f][1])

\* TaskUpdate(**body) succeeds: every field is Optional.
TaskUpdateValid(body) ==
  \A f \in Declared(body) : body[f] = None \/ ConstraintOK(f, body[f][1])

\* payload.model_dump() of a TaskCreate.
TaskCreateDump(body) ==
  [f \in Fields |-> IF f \in DOMAIN body THEN Coerce(f, body[f]) ELSE Default(f)]

\* payload.model_dump(exclude_unset=True) of a TaskUpdate.
TaskUpdateDump(body) ==
  [f \in Declared(body) |-> Coerce(f, body[f])]

\* ----------------------------------------------------------- storage
\* The DateTime column of SQLite stores no timezone.
ToColumn(f, v) ==
  IF f = "due_date" /\ v # None THEN Some([v[1] EXCEPT !.tz = "naive"]) ELSE v

\* nullable=False columns a request can write.
NotNullColumns == {"title", "completed", "priority"}

NotNullOK(row) == \A f \in NotNullColumns : row[f] # None

SetMax(S) == CHOOSE m \in S : \A x \in S : x <= m

\* INTEGER PRIMARY KEY of SQLite without AUTOINCREMENT: one more than the
\* largest id in the table.
NextRowid(t) == IF DOMAIN t = {} THEN 1 ELSE SetMax(DOMAIN t) + 1

\* TaskModel(**dump), db.add, db.commit, db.refresh at time now.
NewRow(t, dump, now) ==
  [f \in Fields \cup {"id", "created_at", "updated_at"} |->
     CASE f = "id" -> NextRowid(t)
       [] f = "created_at" -> now
       [] f = "updated_at" -> now
       [] OTHER -> ToColumn(f, dump[f])]

\* for field, value in update_data.items(): setattr(task, field, value),
\* with a bug: the row's updated_at moves as well.
ApplyUpdateTouch(row, dump) ==
  [f \in DOMAIN row |->
     IF f \in DOMAIN dump THEN ToColumn(f, dump[f])
     ELSE IF f = "updated_at" THEN row[f] + 1 ELSE row[f]]

\* for field, value in update_data.items(): setattr(task, field, value)
ApplyUpdate(row, dump) ==
  [f \in DOMAIN row |-> IF f \in DOMAIN dump THEN ToColumn(f, dump[f]) ELSE row[f]]

\* The table with row id added or replaced.
Put(t, row) ==
  [i \in DOMAIN t \cup {row.id} |-> IF i = row.id THEN row ELSE t[i]]

\* The table without row id.
Remove(t, id) == [i \in DOMAIN t \ {id} |-> t[i]]

\* db.query(TaskModel).filter(TaskModel.id == task_id).first(), with the
\* filter lost: the first row of the table, whatever its id.
LookupAny(t, id) ==
  IF DOMAIN t = {} THEN <<>>
  ELSE <<t[CHOOSE i \in DOMAIN t : \A j \in DOMAIN t : i <= j]>>

\* db.query(TaskModel).filter(TaskModel.id == task_id).first()
Lookup(t, id) == IF id \in DOMAIN t THEN <<t[id]>> ELSE <<>>

\* The rows from id i on, in rowid order, that the filter on completed keeps.
RECURSIVE RowsFrom(_, _, _)
RowsFrom(t, i, completed) ==
  IF i > SetMax(DOMAIN t \cup {0}) THEN <<>>
  ELSE IF i \in DOMAIN t /\ (completed = None \/ t[i].completed = completed)
       THEN <<t[i]>> \o RowsFrom(t, i + 1, completed)
       ELSE RowsFrom(t, i + 1, completed)

\* query.all() with the filter on completed lost.
QueryAllUnfiltered(t, completed) == RowsFrom(t, 1, None)

\* query.filter(TaskModel.completed == completed) when given, then .all():
\* the rows in rowid order.
QueryAll(t, completed) == RowsFrom(t, 1, completed)

\* response_model=Task: the fields of the row copied into the Task schema.
ToTask(row) ==
  [f \in Fields \cup {"id", "created_at", "updated_at"} |-> row[f]]

RECURSIVE ToTasks(_)
ToTasks(rows) ==
  IF rows = <<>> THEN <<>> ELSE <<ToTask(Head(rows))>> \o ToTasks(Tail(rows))

\* ------------------------------------------------------------- inputs
T1 == Rep(TitleMinLen)
T100 == Rep(TitleMaxLen)

\* A request body with one key, and with two.
Body1(f, v) == [g \in {f} |-> v]
Body2(f1, v1, f2, v2) == [g \in {f1, f2} |-> IF g = f1 THEN v1 ELSE v2]

EmptyBody == [g \in {} |-> None]

FullBody ==
  [title |-> Some(T100), description |-> Some(Rep(2)), completed |-> Some(TRUE),
   priority |-> Some(PriorityMax), due_date |-> Some(DueAware),
   owner_email |-> Some("bob@EXAMPLE.com"), category |-> Some("work")]

CreateBodies ==
  { Body1("title", Some(T1)),
    FullBody,
    Body2("title", Some(T1), "category", None),
    Body2("title", Some(T1), "priority", Some(PriorityMin)),
    EmptyBody,
    Body1("title", None),
    Body1("title", Some(Rep(TitleMinLen - 1))),
    Body1("title", Some(Rep(TitleMaxLen + 1))),
    Body2("title", Some(T1), "priority", Some(PriorityMin - 1)),
    Body2("title", Some(T1), "priority", Some(PriorityMax + 1)),
    Body2("title", Some(T1), "category", Some("urgent")),
    Body2("title", Some(T1), "owner_email", Some("not-an-email")),
    Body2("title", Some(T1), "completed", None),
    Body2("title", Some(T1), "id", Some(MaxTaskId)) }

UpdateBodies ==
  { EmptyBody,
    Body1("completed", Some(TRUE)),
    Body1("title", Some(T100)),
    Body1("description", Some(Rep(2))),
    Body1("priority", Some(PriorityMax)),
    Body1("due_date", Some(DueAware)),
    Body1("owner_email", Some("bob@EXAMPLE.com")),
    Body1("category", None),
    Body2("completed", Some(FALSE), "category", Some("study")),
    Body1("title", None),
    Body1("completed", None),
    Body1("priority", None),
    Body2("title", None, "completed", Some(TRUE)),
    Body1("title", Some(Rep(TitleMinLen - 1))),
    Body1("title", Some(Rep(TitleMaxLen + 1))),
    Body1("priority", Some(PriorityMin - 1)),
    Body1("priority", Some(PriorityMax + 1)),
    Body1("category", Some("urgent")),
    Body1("owner_email", Some("not-an-email")),
    Body2("completed", Some(TRUE), "priority", Some(PriorityMax + 1)),
    Body2("id", Some(MaxTaskId + 1), "updated_at", Some(MaxRequests + 1)) }

TaskIds == 1..MaxTaskId

CompletedFilters == {None, Some(TRUE), Some(FALSE)}

\* -------------------------------------------------------------- state
VARIABLES
  tasks,     \* the table: id -> row
  clock,     \* datetime.utcnow(), one tick per request
  req,       \* the request handled last
  resp,      \* its response: status code and the tasks in its body
  assigned,  \* the ids Create has assigned, in order
  deleted,   \* the ids Delete has removed
  rq         \* ConcSpec: the requests in flight, each with its session

vars == <<tasks, clock, req, resp, assigned, deleted, rq>>

Request(op, id, body, completed) ==
  [op |-> op, id |-> id, body |-> body, completed |-> completed]

Response(status, body) == [status |-> status, body |-> body]

Init ==
  /\ tasks = [i \in {} |-> None]
  /\ clock = 0
  /\ req = Request("none", 0, EmptyBody, None)
  /\ resp = Response(0, <<>>)
  /\ assigned = <<>>
  /\ deleted = {}
  /\ rq = <<>>

\* GET /tasks/?completed=...
list_tasks(completed) ==
  /\ clock < MaxRequests
  /\ clock' = clock + 1
  /\ req' = Request("list", 0, EmptyBody, completed)
  /\ resp' = Response(200, ToTasks(QueryAll(tasks, completed)))
  /\ UNCHANGED <<tasks, assigned, deleted, rq>>

\* GET /tasks/{task_id}
get_task(task_id) ==
  /\ clock < MaxRequests
  /\ clock' = clock + 1
  /\ req' = Request("get", task_id, EmptyBody, None)
  /\ LET task == Lookup(tasks, task_id)
     IN  IF task = <<>> THEN resp' = Response(404, <<>>)
         ELSE resp' = Response(200, <<ToTask(task[1])>>)
  /\ UNCHANGED <<tasks, assigned, deleted, rq>>

\* POST /tasks/
create_task(body) ==
  /\ clock < MaxRequests
  /\ clock' = clock + 1
  /\ req' = Request("create", 0, body, None)
  /\ UNCHANGED rq
  /\ IF ~TaskCreateValid(body)
     THEN /\ resp' = Response(422, <<>>)
          /\ UNCHANGED <<tasks, assigned, deleted>>
     ELSE LET row == NewRow(tasks, TaskCreateDump(body), clock)
          IN  /\ tasks' = Put(tasks, row)
              /\ resp' = Response(201, <<ToTask(row)>>)
              /\ assigned' = Append(assigned, row.id)
              /\ UNCHANGED deleted

\* PUT /tasks/{task_id}
update_task(task_id, body) ==
  /\ clock < MaxRequests
  /\ clock' = clock + 1
  /\ req' = Request("update", task_id, body, None)
  /\ UNCHANGED <<assigned, deleted, rq>>
  /\ IF ~TaskUpdateValid(body)
     THEN /\ resp' = Response(422, <<>>)
          /\ UNCHANGED tasks
     ELSE LET task == Lookup(tasks, task_id)
          IN  IF task = <<>>
              THEN /\ resp' = Response(404, <<>>)
                   /\ UNCHANGED tasks
              ELSE LET row == ApplyUpdate(task[1], TaskUpdateDump(body))
                   IN  IF ~NotNullOK(row)
                       THEN \* db.commit() raises IntegrityError
                            /\ resp' = Response(500, <<>>)
                            /\ UNCHANGED tasks
                       ELSE /\ tasks' = Put(tasks, row)
                            /\ resp' = Response(200, <<ToTask(row)>>)

\* DELETE /tasks/{task_id}
delete_task(task_id) ==
  /\ clock < MaxRequests
  /\ clock' = clock + 1
  /\ req' = Request("delete", task_id, EmptyBody, None)
  /\ UNCHANGED <<assigned, rq>>
  /\ LET task == Lookup(tasks, task_id)
     IN  IF task = <<>>
         THEN /\ resp' = Response(404, <<>>)
              /\ UNCHANGED <<tasks, deleted>>
         ELSE /\ tasks' = Remove(tasks, task[1].id)
              /\ deleted' = deleted \cup {task[1].id}
              /\ resp' = Response(204, <<>>)

Next ==
  \/ \E c \in CompletedFilters : list_tasks(c)
  \/ \E i \in TaskIds : get_task(i)
  \/ \E b \in CreateBodies : create_task(b)
  \/ \E i \in TaskIds, b \in UpdateBodies : update_task(i, b)
  \/ \E i \in TaskIds : delete_task(i)

Spec == Init /\ [][Next]_vars

\* ------------------------------------------------ concurrent requests
\* Each request runs in its own worker thread with its own session
\* (get_db); the steps of different requests interleave. A commit is one
\* step: SQLite serialises writers.
Requests == 1..MaxInFlight

\* The requests ConcSpec receives: operation and body, all on task 1.
ConcInputs ==
  { <<"create", Body1("title", Some(T1))>>,
    <<"create", EmptyBody>>,
    <<"update", EmptyBody>>,
    <<"update", Body1("completed", Some(TRUE))>>,
    <<"update", Body1("title", None)>>,
    <<"update", Body1("priority", Some(PriorityMax + 1))>>,
    <<"delete", EmptyBody>>,
    <<"get", EmptyBody>> }

\* A request not yet received.
NewRequest ==
  [pc |-> "new", op |-> "none", id |-> 0, body |-> EmptyBody, sess |-> "none",
   closes |-> 0, obj |-> <<>>, changed |-> EmptyBody, status |-> 0]

\* The table after one POST /tasks/ {"title": "a"} at time 0.
SeedTable ==
  LET empty == [i \in {} |-> None]
  IN  Put(empty, NewRow(empty, TaskCreateDump(Body1("title", Some(T1))), 0))

\* The requests arrive at a table that holds one task.
ConcInit ==
  /\ tasks = SeedTable
  /\ clock = 1
  /\ req = Request("none", 0, EmptyBody, None)
  /\ resp = Response(0, <<>>)
  /\ assigned = <<>>
  /\ deleted = {}
  /\ rq = [r \in Requests |-> NewRequest]

\* The body passes the schema of the operation (get and delete have none).
BodyValid(op, body) ==
  CASE op = "create" -> TaskCreateValid(body)
    [] op = "update" -> TaskUpdateValid(body)
    [] OTHER -> TRUE

\* The attributes setattr changed: those whose new value differs from the
\* loaded one.
Changed(row, dump) ==
  [f \in {g \in DOMAIN dump : dump[g] # row[g]} |-> dump[f]]

\* db = SessionLocal(); yield db: the session opens, then the body is
\* validated; a rejected body (422) never reaches the handler. Requests are
\* numbered in the order they arrive.
get_db(r, op, id, body) ==
  /\ rq[r].pc = "new"
  /\ \A o \in Requests : o < r => rq[o].pc # "new"
  /\ rq' = [rq EXCEPT ![r] =
       [NewRequest EXCEPT
          !.pc = IF BodyValid(op, body) THEN "handler" ELSE "finally",
          !.op = op, !.id = IF op = "create" THEN 0 ELSE id, !.body = body,
          !.sess = "open",
          !.status = IF BodyValid(op, body) THEN 0 ELSE 422]]
  /\ clock' = clock + 1
  /\ UNCHANGED <<tasks, req, resp, assigned, deleted>>

\* The handler up to its commit: TaskModel(**dump) and db.add for create; the
\* query ... first() and the 404 for the others, then setattr or db.delete.
handler_query(r) ==
  /\ rq[r].pc = "handler"
  /\ LET q == rq[r]
         task == Lookup(tasks, q.id)
     IN  rq' = [rq EXCEPT ![r] =
           CASE q.op = "create" ->
                  [q EXCEPT !.pc = "commit",
                            !.changed = TaskCreateDump(q.body)]
             [] q.op = "get" ->
                  [q EXCEPT !.pc = "finally",
                            !.status = IF task = <<>> THEN 404 ELSE 200,
                            !.obj = task]
             [] q.op = "update" ->
                  IF task = <<>>
                  THEN [q EXCEPT !.pc = "finally", !.status = 404]
                  ELSE [q EXCEPT !.pc = "commit", !.obj = task,
                          !.changed = Changed(task[1], TaskUpdateDump(q.body))]
             [] q.op = "delete" ->
                  IF task = <<>>
                  THEN [q EXCEPT !.pc = "finally", !.status = 404]
                  ELSE [q EXCEPT !.pc = "commit", !.obj = task]]
  /\ UNCHANGED <<tasks, clock, req, resp, assigned, deleted>>

\* db.commit(): the flush (INSERT, UPDATE of the changed columns, DELETE)
\* and the commit. An UPDATE that matches no row raises StaleDataError and a
\* null in a NOT NULL column IntegrityError: the handler ends with 500.
db_commit(r) ==
  /\ rq[r].pc = "commit"
  /\ UNCHANGED <<clock, req, resp, assigned, deleted>>
  /\ LET q == rq[r] IN
     CASE q.op = "create" ->
            LET row == NewRow(tasks, q.changed, clock)
            IN  /\ tasks' = Put(tasks, row)
                /\ rq' = [rq EXCEPT ![r] =
                     [q EXCEPT !.pc = "refresh", !.id = row.id,
                               !.changed = EmptyBody]]
       [] q.op = "update" ->
            IF DOMAIN q.changed = {}
            THEN /\ rq' = [rq EXCEPT ![r] = [q EXCEPT !.pc = "refresh"]]
                 /\ UNCHANGED tasks
            ELSE IF q.id \notin DOMAIN tasks
                    \/ ~NotNullOK(ApplyUpdate(tasks[q.id], q.changed))
            THEN /\ rq' = [rq EXCEPT ![r] =
                      [q EXCEPT !.pc = "finally", !.status = 500]]
                 /\ UNCHANGED tasks
            ELSE /\ tasks' = Put(tasks, ApplyUpdate(tasks[q.id], q.changed))
                 /\ rq' = [rq EXCEPT ![r] =
                      [q EXCEPT !.pc = "refresh", !.changed = EmptyBody]]
       [] q.op = "delete" ->
            /\ tasks' = IF q.id \in DOMAIN tasks THEN Remove(tasks, q.id)
                        ELSE tasks
            /\ rq' = [rq EXCEPT ![r] =
                 [q EXCEPT !.pc = "finally", !.status = 204, !.obj = <<>>]]

\* db.refresh(task): the row is read again by its id; a row that is gone
\* raises InvalidRequestError: the handler ends with 500.
db_refresh(r) ==
  /\ rq[r].pc = "refresh"
  /\ LET q == rq[r]
         task == Lookup(tasks, q.id)
     IN  rq' = [rq EXCEPT ![r] =
           IF task = <<>>
           THEN [q EXCEPT !.pc = "finally", !.status = 500]
           ELSE [q EXCEPT !.pc = "finally", !.obj = task,
                   !.status = IF q.op = "create" THEN 201 ELSE 200]]
  /\ UNCHANGED <<tasks, clock, req, resp, assigned, deleted>>

\* finally: db.close(), skipped when the handler raised a storage error.
db_close_unless_error(r) ==
  /\ rq[r].pc = "finally"
  /\ rq' = [rq EXCEPT ![r] =
       IF rq[r].status = 500 THEN [rq[r] EXCEPT !.pc = "done"]
       ELSE [rq[r] EXCEPT !.pc = "done", !.sess = "closed",
               !.closes = rq[r].closes + 1, !.obj = <<>>,
               !.changed = EmptyBody]]
  /\ UNCHANGED <<tasks, clock, req, resp, assigned, deleted>>

\* finally: db.close(): the session's objects and uncommitted changes go,
\* the connection returns to the pool; then the response leaves.
db_close(r) ==
  /\ rq[r].pc = "finally"
  /\ rq' = [rq EXCEPT ![r] =
       [rq[r] EXCEPT !.pc = "done", !.sess = "closed",
          !.closes = rq[r].closes + 1, !.obj = <<>>, !.changed = EmptyBody]]
  /\ UNCHANGED <<tasks, clock, req, resp, assigned, deleted>>

\* The steps of request r once it is received.
RequestStep(r) ==
  handler_query(r) \/ db_commit(r) \/ db_refresh(r) \/ db_close(r)

ConcNext ==
  \/ \E r \in Requests, i \in ConcInputs : get_db(r, i[1], 1, i[2])
  \/ \E r \in Requests : handler_query(r)
  \/ \E r \in Requests : db_commit(r)
  \/ \E r \in Requests : db_refresh(r)
  \/ \E r \in Requests : db_close(r)

\* A received request runs to its end: its worker thread is never starved.
ConcSpec ==
  ConcInit /\ [][ConcNext]_vars /\ \A r \in Requests : WF_vars(RequestStep(r))

\* ============================================================= claims
Columns == Fields \cup {"id", "created_at", "updated_at"}

Range(seq) == {seq[i] : i \in 1..Len(seq)}

\* Element i of the sequence occurs in it only once.
Fresh(seq, i) == \A j \in 1..Len(seq) : j # i => seq[j] # seq[i]

\* ---------------------------------------------------------------- C1
\* C1: an Update of an existing task with a body that validation accepts
\* changes only the fields present in the body: every absent field, and
\* always id, created_at and updated_at, keeps its value; an empty body
\* changes nothing; no other task changes and none appears or disappears.
C1_UpdateChangesOnlyGivenFields ==
  [][(req'.op = "update" /\ req'.id \in DOMAIN tasks
        /\ TaskUpdateValid(req'.body))
     => /\ DOMAIN tasks' = DOMAIN tasks
        /\ \A i \in DOMAIN tasks \ {req'.id} : tasks'[i] = tasks[i]
        /\ \A f \in Columns \ DOMAIN req'.body :
             tasks'[req'.id][f] = tasks[req'.id][f]
        /\ \A f \in {"id", "created_at", "updated_at"} :
             tasks'[req'.id][f] = tasks[req'.id][f]
        /\ (req'.body = EmptyBody => tasks' = tasks)]_vars

\* An Update with only completed=true succeeded on one of two stored tasks,
\* long enough after its creation for a refreshed updated_at to show.
C1_Witness ==
  /\ req.op = "update" /\ resp.status = 200
  /\ req.body = Body1("completed", Some(TRUE))
  /\ Cardinality(DOMAIN tasks) = 2
  /\ tasks[req.id].completed = Some(TRUE)
  /\ tasks[req.id].updated_at < clock - 1
  /\ \E i \in DOMAIN tasks : tasks[i].completed = Some(FALSE)

\* ---------------------------------------------------------------- C2
\* C2: the id a Create assigns differs from every id assigned before, those
\* of deleted tasks included, and a stored task keeps its id.
C2_IdNeverReused ==
  /\ \A i \in 1..Len(assigned) : Fresh(assigned, i)
  /\ \A i \in DOMAIN tasks : tasks[i].id = i

\* ---------------------------------------------------------------- C3
\* C3 as stated: Get, Update or Delete with an id no stored task has ends
\* with 404 and leaves the table as it was.
C3_AbsentIdIsNotFound ==
  [][(req'.op \in {"get", "update", "delete"} /\ req'.id \notin DOMAIN tasks)
     => resp'.status = 404 /\ tasks' = tasks]_vars

\* C3 amended: Get and Delete with an id no stored task has, and Update with
\* such an id and a body that validation accepts, end with 404; an Update
\* whose body validation rejects ends with 422 whatever the id; in all these
\* cases the table stays as it was.
C3_AbsentIdIsNotFoundOrInvalid ==
  [][(req'.op \in {"get", "update", "delete"} /\ req'.id \notin DOMAIN tasks)
     => /\ tasks' = tasks
        /\ resp'.body = <<>>
        /\ IF req'.op = "update" /\ ~TaskUpdateValid(req'.body)
           THEN resp'.status = 422
           ELSE resp'.status = 404]_vars

\* An Update with an accepted body named an id that is not stored, while
\* another task is stored.
C3_Witness ==
  /\ req.op = "update" /\ resp.status = 404
  /\ req.body = Body1("completed", Some(TRUE))
  /\ DOMAIN tasks # {} /\ req.id \notin DOMAIN tasks

\* ---------------------------------------------------------------- C4
\* C4: an Update ends with 422 when validation rejects its body, with 404
\* when the id is not stored, and otherwise (explicit nulls included) with
\* success: the change is stored and the refreshed task returned.
C4_UpdateSucceeds ==
  [][req'.op = "update"
     => IF ~TaskUpdateValid(req'.body) THEN resp'.status = 422
        ELSE IF req'.id \notin DOMAIN tasks THEN resp'.status = 404
        ELSE /\ resp'.status = 200
             /\ resp'.body = <<ToTask(tasks'[req'.id])>>
             /\ \A f \in Declared(req'.body) :
                  req'.body[f] = None => tasks'[req'.id][f] = None]_vars

\* ---------------------------------------------------------------- C5
\* The stored tasks whose completed is true, as List returns them.
CompletedTasks ==
  {ToTask(tasks[i]) : i \in {j \in DOMAIN tasks : tasks[j].completed = Some(TRUE)}}

\* C5 as stated: List(completed=true) returns a strict subset of what List()
\* returns, exactly the stored tasks whose completed is true; List leaves
\* the table as it was.
C5_ListCompletedStrictSubset ==
  [][req'.op = "list"
     => /\ tasks' = tasks
        /\ req'.completed = Some(TRUE)
             => /\ Range(resp'.body) = CompletedTasks
                /\ Range(resp'.body) \subseteq Range(ToTasks(QueryAll(tasks, None)))
                /\ Range(resp'.body) # Range(ToTasks(QueryAll(tasks, None)))]_vars

\* C5 amended: List(completed=true) returns a subset of what List() returns,
\* exactly the stored tasks whose completed is true, each once; the two
\* lists are equal when every stored task is completed (or none is stored);
\* List leaves the table as it was.
C5_ListCompletedSubset ==
  [][req'.op = "list"
     => /\ tasks' = tasks
        /\ req'.completed = None
             => Range(resp'.body) = {ToTask(tasks[i]) : i \in DOMAIN tasks}
        /\ req'.completed = Some(TRUE)
             => /\ Range(resp'.body) = CompletedTasks
                /\ Len(resp'.body) = Cardinality(CompletedTasks)
                /\ Range(resp'.body) \subseteq Range(ToTasks(QueryAll(tasks, None)))
                /\ (Range(resp'.body) = Range(ToTasks(QueryAll(tasks, None))))
                     <=> (\A i \in DOMAIN tasks : tasks[i].completed = Some(TRUE))]_vars

\* List(completed=true) returned some of the stored tasks and not all.
C5_Witness ==
  /\ req.op = "list" /\ req.completed = Some(TRUE) /\ resp.status = 200
  /\ Len(resp.body) = 1
  /\ Cardinality(DOMAIN tasks) = 2

\* ---------------------------------------------------------------- C6
\* C6: once Delete(id) succeeded, every later Get(id) and Delete(id) ends
\* with 404, whatever requests ran in between.
C6_DeletedStaysGone ==
  [][(req'.op \in {"get", "delete"} /\ req'.id \in deleted)
     => resp'.status = 404]_vars

\* ---------------------------------------------------------------- C7
\* The data-model invariants of a stored row.
RowOK(row) ==
  /\ row.title # None
  /\ Len(row.title[1]) >= 1 /\ Len(row.title[1]) <= 100
  /\ row.priority \in {Some(p) : p \in 1..5}
  /\ row.completed \in {Some(TRUE), Some(FALSE)}
  /\ row.category \in {None} \cup {Some(c) : c \in {"work", "personal", "study", "other"}}

\* The body breaks a constraint on title, priority or category.
BreaksConstraint(body) ==
  \/ /\ "title" \in DOMAIN body /\ body.title # None
     /\ (Len(body.title[1]) < 1 \/ Len(body.title[1]) > 100)
  \/ /\ "priority" \in DOMAIN body /\ body.priority # None
     /\ body.priority[1] \notin 1..5
  \/ /\ "category" \in DOMAIN body /\ body.category # None
     /\ body.category[1] \notin {"work", "personal", "study", "other"}

\* C7: after every request every stored task has a title of length 1..100,
\* a priority in 1..5, a boolean completed and a category of the enum or
\* null; a Create or Update whose body breaks a constraint is rejected (422)
\* and leaves the table as it was.
C7_StoredTasksValid ==
  [][/\ \A i \in DOMAIN tasks' : RowOK(tasks'[i])
     /\ (req'.op \in {"create", "update"} /\ BreaksConstraint(req'.body))
          => resp'.status = 422 /\ tasks' = tasks]_vars

\* An Update with priority 6 (beside a valid completed=true) was rejected
\* for a stored task.
C7_Witness ==
  /\ req.op = "update" /\ resp.status = 422
  /\ req.id \in DOMAIN tasks
  /\ req.body = Body2("completed", Some(TRUE), "priority", Some(6))
  /\ tasks[req.id].completed = Some(FALSE)

\* ---------------------------------------------------------------- C8
\* The documented default of a field a Create body leaves out.
Documented(f) ==
  CASE f = "completed" -> Some(FALSE)
    [] f = "priority" -> Some(3)
    [] f = "category" -> Some("other")
    [] OTHER -> None

\* C8: a Create of a valid body returns a task whose absent fields hold the
\* documented defaults, and a Get of the returned id right after it returns
\* a task equal to the Create response in every field.
C8_CreateThenGet ==
  [][/\ (req'.op = "create" /\ resp'.status = 201)
          => \A f \in Fields \ DOMAIN req'.body :
               resp'.body[1][f] = Documented(f)
     /\ (req.op = "create" /\ resp.status = 201
           /\ req'.op = "get" /\ req'.id = resp.body[1].id)
          => /\ resp'.status = 200
             /\ resp'.body = resp.body
             /\ \A f \in Columns : resp'.body[1][f] = resp.body[1][f]]_vars

\* A Get returned, with defaults in its absent fields, the task that the
\* request just before it created as the second of the table.
C8_Witness ==
  /\ req.op = "get" /\ resp.status = 200
  /\ resp.body[1].id = 2
  /\ resp.body[1].created_at = clock - 2
  /\ resp.body[1].priority = Some(3)
  /\ resp.body[1].category = None

\* ---------------------------------------------------------------- C9
\* C9: a request that opened a session closes it: once the request is
\* finished its session is closed, closed once, and holds no object and no
\* uncommitted change; a session is closed only as the last step of its
\* request; a commit that fails and the close itself leave the table as it
\* was; and every open session is eventually closed.
C9_SessionReleased ==
  /\ [](\A r \in Requests :
          /\ rq[r].closes <= 1
          /\ rq[r].sess = "closed" => rq[r].pc = "done"
          /\ rq[r].pc = "done"
               => /\ rq[r].sess = "closed" /\ rq[r].closes = 1
                  /\ rq[r].obj = <<>> /\ rq[r].changed = EmptyBody)
  /\ [][\A r \in Requests :
          /\ (rq[r].pc = "finally" /\ rq'[r].pc = "done") => tasks' = tasks
          /\ (rq[r].status # 500 /\ rq'[r].status = 500) => tasks' = tasks]_vars
  /\ \A r \in Requests : (rq[r].sess = "open") ~> (rq[r].sess = "closed")

\* An Update whose commit raised ended with 500 and its session closed.
C9_Witness ==
  \E r \in Requests :
    /\ rq[r].op = "update" /\ rq[r].status = 500
    /\ rq[r].pc = "done" /\ rq[r].sess = "closed"
    /\ rq[r].body = Body1("completed", Some(TRUE))

\* --------------------------------------------------------------- C10
\* The Update writes no null into a NOT NULL column.
NoNullWrite(body) == \A f \in DOMAIN body \cap NotNullColumns : body[f] # None

\* C10: when an Update (with an accepted body) and a Delete of the same id
\* have both finished, the Update ended with 200 or 404 and the Delete with
\* 204 or 404, and if the Delete ended with 204 the task is not stored.
C10_UpdateDeleteRace ==
  \A u \in Requests, d \in Requests :
    (/\ rq[u].op = "update" /\ rq[d].op = "delete" /\ rq[u].id = rq[d].id
     /\ rq[u].pc = "done" /\ rq[d].pc = "done"
     /\ TaskUpdateValid(rq[u].body) /\ NoNullWrite(rq[u].body))
    => /\ rq[u].status \in {200, 404}
       /\ rq[d].status \in {204, 404}
       /\ rq[d].status = 204 => rq[d].id \notin DOMAIN tasks

====
